---- MODULE Spec2Model ----
(***************************************************************************)
(* Model of the System Grading engine of the water-quality dashboard:      *)
(* utils/report_card.py (calculate_system_grade), called by app.py with a  *)
(* dictionary holding the violation rows of one water system.              *)
(*                                                                         *)
(* Python values are modelled as tagged records: None, a string (Str), a   *)
(* string that spells a calendar date in some format (DateStr), and a      *)
(* pandas Timestamp (Timestamp).  A dictionary is a function from its keys *)
(* to values; a missing key is a key outside its DOMAIN.  Time is counted  *)
(* in whole days: the violation dates of the feed carry no time of day, so *)
(* "date > now - 730 days" is decided by the day numbers alone, whatever   *)
(* the time of day of now is.                                              *)
(***************************************************************************)
EXTENDS Integers, Sequences, FiniteSets, TLC

VARIABLES system_data, report_card, pc,
          search_results, results_with_grades,
          violations_enforcement, pn_violation_assoc, alerts_data,
          clock, previous, screen, voice, meme, pub_water_systems

vars == <<system_data, report_card, pc, search_results, results_with_grades, violations_enforcement, pn_violation_assoc, alerts_data, clock, previous, screen, voice, meme, pub_water_systems>>

\* the state of the search-results table
searchVars == <<search_results, results_with_grades>>

\* the state of the alert banner: the two tables it queries and its result
alertVars == <<violations_enforcement, pn_violation_assoc, alerts_data, pub_water_systems>>

\* the state of the report card of the detail view
gradeVars == <<system_data, report_card>>

\* the reading of datetime.now() and the report card of the script run before
rerunVars == <<clock, previous>>

\* st.session_state of the voice assistant and of the meme wizard
sessionVars == <<voice, meme>>

(***************************************************************************)
(* Bounds of the model.                                                    *)
(***************************************************************************)
\* longest violation list handed to calculate_system_grade
MaxViolations == 5

(***************************************************************************)
(* Python values.                                                          *)
(***************************************************************************)
None == [tag |-> "None"]

Str(s) == [tag |-> "str", val |-> s]

\* the string that spells day number `day` in format `fmt`
DateStr(fmt, day) == [tag |-> "str", val |-> fmt, day |-> day]

Timestamp(day) == [tag |-> "Timestamp", day |-> day]

\* dict.get(key): the value, or None for a missing key
Get(d, key) == IF key \in DOMAIN d THEN d[key] ELSE None

\* dict.get(key, default)
GetOr(d, key, default) == IF key \in DOMAIN d THEN d[key] ELSE default

\* the empty dictionary {}
EmptyDict == <<>>

\* datetime.now(), as a day number
Now == 20000

\* timedelta(days=730)
RECENT_DAYS == 730

\* the placeholder of the source feed for "no date"
SENTINEL == "--->"

(***************************************************************************)
(* The rows of violations_enforcement the model draws its lists from.      *)
(* They cover active and health-based, active only, and closed violations, *)
(* each with a begin date inside and outside the two-year window, and the  *)
(* raw values the feed holds: other statuses, NULL and missing fields, the *)
(* sentinel date.  Their dates are in the feed's format (month/day/year)   *)
(* and not later than Now.                                                 *)
(***************************************************************************)
Row(status, health, date) ==
    [VIOLATION_STATUS |-> status, IS_HEALTH_BASED_IND |-> health,
     NON_COMPL_PER_BEGIN_DATE |-> date]

ViolationRows ==
    { Row(Str("Unaddressed"), Str("Y"), DateStr("mdy", Now - 1)),
      [VIOLATION_STATUS |-> Str("Unaddressed"), IS_HEALTH_BASED_IND |-> Str("Y")],
      Row(Str("Unaddressed"), Str("N"), DateStr("mdy", Now - 30)),
      [VIOLATION_STATUS |-> Str("Unaddressed"),
       NON_COMPL_PER_BEGIN_DATE |-> DateStr("mdy", Now - 1000)],
      Row(Str("Addressed"), Str("Y"), DateStr("mdy", Now - 500)),
      Row(Str("Resolved"), Str("N"), Str(SENTINEL)),
      Row(None, Str("N"), DateStr("mdy", Now - 1000)) }

BoundedSeq(S, n) == UNION { [1..k -> S] : k \in 0..n }

\* what db.get_system_details / the search query hand to the grading engine
\* for a system on record
SystemDataValues ==
    { [violations |-> vs] : vs \in BoundedSeq(ViolationRows, MaxViolations) }

(***************************************************************************)
(* pandas.to_datetime on one field value, as calculate_system_grade uses   *)
(* it: None stays None, a string that spells a date becomes a Timestamp    *)
(* (pandas infers the format), and a string that spells none, such as the  *)
(* sentinel, raises a parse error.                                         *)
(***************************************************************************)
Returned(value) == [exc |-> "none", value |-> value]

Raised(exc) == [exc |-> exc]

pd_to_datetime(x) ==
    IF x = None THEN Returned(None)
    ELSE IF "day" \in DOMAIN x THEN Returned(Timestamp(x.day))
    ELSE Raised("DateParseError")

\* Python truth value of what pd_to_datetime returned
Truthy(value) == value # None

\* the bare "except:" of the date loop: which exceptions it swallows
ExceptCatches_type_error(exc) == exc = "TypeError"

ExceptCatches(exc) == TRUE

\* the body of the loop with "viol_date >= two_years_ago"
RecentStep_inclusive(v, recent_violations, two_years_ago) ==
    LET r == pd_to_datetime(Get(v, "NON_COMPL_PER_BEGIN_DATE")) IN
    IF r.exc # "none"
    THEN IF ExceptCatches(r.exc) THEN Returned(recent_violations) ELSE Raised(r.exc)
    ELSE IF Truthy(r.value) /\ r.value.day >= two_years_ago
         THEN Returned(recent_violations + 1)
         ELSE Returned(recent_violations)

\* one pass of the body of "for v in violations": the new value of
\* recent_violations, or the exception that leaves the loop
RecentStep(v, recent_violations, two_years_ago) ==
    LET r == pd_to_datetime(Get(v, "NON_COMPL_PER_BEGIN_DATE")) IN
    IF r.exc # "none"
    THEN IF ExceptCatches(r.exc) THEN Returned(recent_violations) ELSE Raised(r.exc)
    ELSE IF Truthy(r.value) /\ r.value.day > two_years_ago
         THEN Returned(recent_violations + 1)
         ELSE Returned(recent_violations)

RECURSIVE RecentLoop(_, _, _, _)
RecentLoop(violations, i, recent_violations, two_years_ago) ==
    IF i > Len(violations) THEN Returned(recent_violations)
    ELSE LET r == RecentStep(violations[i], recent_violations, two_years_ago) IN
         IF r.exc # "none" THEN r
         ELSE RecentLoop(violations, i + 1, r.value, two_years_ago)

\* every status but 'Resolved' taken as active
IsActive_unresolved(v) == Get(v, "VIOLATION_STATUS") # Str("Resolved")

IsActive(v) == Get(v, "VIOLATION_STATUS") = Str("Unaddressed")

IsHealth(v) == Get(v, "IS_HEALTH_BASED_IND") = Str("Y")

\* len([v for v in violations if v.get('VIOLATION_STATUS') == 'Unaddressed'])
ActiveViolations(violations) ==
    Cardinality({ i \in 1..Len(violations) : IsActive(violations[i]) })

\* len([v for v in violations if v.get('IS_HEALTH_BASED_IND') == 'Y'])
HealthViolations(violations) ==
    Cardinality({ i \in 1..Len(violations) : IsHealth(violations[i]) })

\* len([v for v in violations if ... == 'Unaddressed' and ... == 'Y'])
ActiveHealth(violations) ==
    Cardinality({ i \in 1..Len(violations) :
                    IsActive(violations[i]) /\ IsHealth(violations[i]) })

\* resolved / total_violations, the factor 100 left out
ResolutionRate_fraction(resolved, total_violations) ==
    IF total_violations > 0
    THEN [num |-> resolved, den |-> total_violations]
    ELSE [num |-> 100, den |-> 1]

\* resolved / total_violations * 100, kept as an exact fraction
ResolutionRate(resolved, total_violations) ==
    IF total_violations > 0
    THEN [num |-> resolved * 100, den |-> total_violations]
    ELSE [num |-> 100, den |-> 1]

\* rate >= n
RateAtLeast(rate, n) == rate.num >= n * rate.den

\* f"{rate:.0f}": the nearest integer, halves to the even one
FormatRate(rate) ==
    LET q == rate.num \div rate.den
        r == rate.num % rate.den IN
    IF 2 * r > rate.den THEN q + 1
    ELSE IF 2 * r = rate.den THEN q + (q % 2)
    ELSE q

\* an f-string: its literal text and the values put into it
Fmt(text, args) == [text |-> text, args |-> args]

Grade(grade, score, color, status, explanation, emoji) ==
    [grade |-> grade, score |-> score, color |-> color, status |-> status,
     explanation |-> explanation, emoji |-> emoji]

\* "if active_health >= 3: ... else: ..." under "if active_health > 0"
ActiveHealthGrade_strict(active_health) ==
    IF active_health > 3
    THEN Grade("F", 30, "danger", "Critical",
               Fmt("{} active health-based violations", <<active_health>>),
               "rotating light")
    ELSE Grade("D", 50, "warning", "Poor",
               Fmt("{} active health violation(s)", <<active_health>>),
               "warning sign")

ActiveHealthGrade_two(active_health) ==
    IF active_health >= 2
    THEN Grade("F", 30, "danger", "Critical",
               Fmt("{} active health-based violations", <<active_health>>),
               "rotating light")
    ELSE Grade("D", 50, "warning", "Poor",
               Fmt("{} active health violation(s)", <<active_health>>),
               "warning sign")

\* the two outcomes under the wrong arms of the test
ActiveHealthGrade_swapped(active_health) ==
    IF active_health >= 3
    THEN Grade("D", 50, "warning", "Poor",
               Fmt("{} active health violation(s)", <<active_health>>),
               "warning sign")
    ELSE Grade("F", 30, "danger", "Critical",
               Fmt("{} active health-based violations", <<active_health>>),
               "rotating light")

ActiveHealthGrade(active_health) ==
    IF active_health >= 3
    THEN Grade("F", 30, "danger", "Critical",
               Fmt("{} active health-based violations", <<active_health>>),
               "rotating light")
    ELSE Grade("D", 50, "warning", "Poor",
               Fmt("{} active health violation(s)", <<active_health>>),
               "warning sign")

\* "if active_violations >= 5: ... else: ..." under "elif active_violations > 0"
ActiveGrade_strict(active_violations) ==
    IF active_violations > 5
    THEN Grade("D", 55, "warning", "Poor",
               Fmt("{} active violations", <<active_violations>>),
               "warning sign")
    ELSE Grade("C", 70, "info", "Fair",
               Fmt("{} active violation(s)", <<active_violations>>),
               "clipboard")

ActiveGrade_four(active_violations) ==
    IF active_violations >= 4
    THEN Grade("D", 55, "warning", "Poor",
               Fmt("{} active violations", <<active_violations>>),
               "warning sign")
    ELSE Grade("C", 70, "info", "Fair",
               Fmt("{} active violation(s)", <<active_violations>>),
               "clipboard")

\* the C outcome scored above the B outcomes
ActiveGrade_scored_high(active_violations) ==
    IF active_violations >= 5
    THEN Grade("D", 55, "warning", "Poor",
               Fmt("{} active violations", <<active_violations>>),
               "warning sign")
    ELSE Grade("C", 90, "info", "Fair",
               Fmt("{} active violation(s)", <<active_violations>>),
               "clipboard")

ActiveGrade(active_violations) ==
    IF active_violations >= 5
    THEN Grade("D", 55, "warning", "Poor",
               Fmt("{} active violations", <<active_violations>>),
               "warning sign")
    ELSE Grade("C", 70, "info", "Fair",
               Fmt("{} active violation(s)", <<active_violations>>),
               "clipboard")

\* the two outcomes under the wrong arms of the test on resolution_rate
RecentGrade_swapped(recent_violations, resolution_rate) ==
    IF RateAtLeast(resolution_rate, 90)
    THEN Grade("C", 75, "info", "Fair",
               Fmt("{} recent violations, {}% resolved",
                   <<recent_violations, FormatRate(resolution_rate)>>),
               "clipboard")
    ELSE Grade("B", 85, "primary", "Good",
               Fmt("{} recent violations, {}% resolved",
                   <<recent_violations, FormatRate(resolution_rate)>>),
               "check mark")

\* "if resolution_rate >= 90: ... else: ..." under "elif recent_violations > 0"
RecentGrade(recent_violations, resolution_rate) ==
    IF RateAtLeast(resolution_rate, 90)
    THEN Grade("B", 85, "primary", "Good",
               Fmt("{} recent violations, {}% resolved",
                   <<recent_violations, FormatRate(resolution_rate)>>),
               "check mark")
    ELSE Grade("C", 75, "info", "Fair",
               Fmt("{} recent violations, {}% resolved",
                   <<recent_violations, FormatRate(resolution_rate)>>),
               "clipboard")

\* "if total_violations <= 3: ... else: ..." under the last "else"
HistoricalGrade_strict(total_violations) ==
    IF total_violations < 3
    THEN Grade("A", 95, "success", "Excellent",
               Fmt("Only minor historical violations", <<>>), "glowing star")
    ELSE Grade("B", 80, "primary", "Good",
               Fmt("{} historical violations, all resolved", <<total_violations>>),
               "check mark")

HistoricalGrade_four(total_violations) ==
    IF total_violations <= 4
    THEN Grade("A", 95, "success", "Excellent",
               Fmt("Only minor historical violations", <<>>), "glowing star")
    ELSE Grade("B", 80, "primary", "Good",
               Fmt("{} historical violations, all resolved", <<total_violations>>),
               "check mark")

HistoricalGrade(total_violations) ==
    IF total_violations <= 3
    THEN Grade("A", 95, "success", "Excellent",
               Fmt("Only minor historical violations", <<>>), "glowing star")
    ELSE Grade("B", 80, "primary", "Good",
               Fmt("{} historical violations, all resolved", <<total_violations>>),
               "check mark")

\* the cascade testing active_violations before active_health
GradingLogic_active_first(total_violations, active_violations, active_health, recent_violations, resolution_rate) ==
    IF active_violations > 0
    THEN ActiveGrade(active_violations)
    ELSE IF active_health > 0
    THEN ActiveHealthGrade(active_health)
    ELSE IF recent_violations > 0
    THEN RecentGrade(recent_violations, resolution_rate)
    ELSE HistoricalGrade(total_violations)

\* the "Grading logic" cascade of calculate_system_grade
GradingLogic(total_violations, active_violations, active_health, recent_violations, resolution_rate) ==
    IF active_health > 0
    THEN ActiveHealthGrade(active_health)
    ELSE IF active_violations > 0
    THEN ActiveGrade(active_violations)
    ELSE IF recent_violations > 0
    THEN RecentGrade(recent_violations, resolution_rate)
    ELSE HistoricalGrade(total_violations)

\* the result for "if not violations"
NoViolationsGrade_historical ==
    Grade("A", 95, "success", "Excellent",
          Fmt("Only minor historical violations", <<>>), "glowing star")

NoViolationsGrade ==
    Grade("A", 100, "success", "Excellent",
          Fmt("No violations on record", <<>>), "glowing star")

\* calculate_system_grade(system_data) called at the instant `now`: the
\* dictionary it returns, or the exception it raises
calculate_system_grade(data, now) ==
    LET violations == GetOr(data, "violations", <<>>) IN
    IF Len(violations) = 0
    THEN Returned(NoViolationsGrade)
    ELSE
    LET total_violations == Len(violations)
        active_violations == ActiveViolations(violations)
        health_violations == HealthViolations(violations)
        active_health == ActiveHealth(violations)
        resolved == total_violations - active_violations
        resolution_rate == ResolutionRate(resolved, total_violations)
        two_years_ago == now - RECENT_DAYS
        loop == RecentLoop(violations, 1, 0, two_years_ago)
    IN
    IF loop.exc # "none" THEN loop
    ELSE
    LET recent_violations == loop.value
        g == GradingLogic(total_violations, active_violations, active_health,
                          recent_violations, resolution_rate)
    IN Returned(
        [grade |-> g.grade, score |-> g.score, color |-> g.color,
         status |-> g.status, explanation |-> g.explanation, emoji |-> g.emoji,
         metrics |-> [total_violations |-> total_violations,
                      active_violations |-> active_violations,
                      health_violations |-> health_violations,
                      active_health |-> active_health,
                      resolution_rate |-> resolution_rate,
                      recent_violations |-> recent_violations]])

(***************************************************************************)
(* The state machine: app.py holds the data of one water system and calls  *)
(* calculate_system_grade on it.                                           *)
(***************************************************************************)
\* no search has been made
SearchIdle ==
    /\ search_results = <<>>
    /\ results_with_grades = <<>>

\* no alert banner has been asked for
AlertIdle ==
    /\ pub_water_systems = <<>>
    /\ violations_enforcement = <<>>
    /\ pn_violation_assoc = EmptyDict
    /\ alerts_data = EmptyDict

\* the script runs for the first time, at Now
RerunIdle ==
    /\ clock = Now
    /\ previous = EmptyDict

\* nothing has been rendered
ScreenIdle == screen = <<>>

\* the voice assistant and the meme wizard have not been opened
SessionIdle ==
    /\ voice = EmptyDict
    /\ meme = EmptyDict

Init ==
    /\ system_data \in SystemDataValues
    /\ report_card = EmptyDict
    /\ pc = "call"
    /\ SearchIdle
    /\ AlertIdle
    /\ RerunIdle
    /\ ScreenIdle
    /\ SessionIdle

\* report_card = calculate_system_grade(system_details)
CalculateSystemGrade ==
    /\ pc = "call"
    /\ LET r == calculate_system_grade(system_data, clock) IN
       IF r.exc = "none"
       THEN /\ report_card' = r.value
            /\ pc' = "returned"
       ELSE /\ report_card' = EmptyDict
            /\ pc' = "raised"
    /\ UNCHANGED <<system_data, searchVars, alertVars, rerunVars, screen, sessionVars>>

Next == CalculateSystemGrade

Spec == Init /\ [][Next]_vars

(***************************************************************************)
(* The search-results table of app.py: every system found is graded from   *)
(* the three columns the search query selects, and the grades are listed.  *)
(* The model lists two systems whose violation lists agree in length and   *)
(* in their numbers of active, health-based and recent violations.         *)
(***************************************************************************)
\* longest violation list of a system in the search results
MaxSearchViolations == 4

\* rows of the search query: all three columns present, begun in the window
SearchRows ==
    { Row(Str("Unaddressed"), Str("Y"), DateStr("mdy", Now - 1)),
      Row(Str("Unaddressed"), Str("N"), DateStr("mdy", Now - 30)),
      Row(Str("Addressed"), Str("Y"), DateStr("mdy", Now - 500)),
      Row(Str("Resolved"), Str("N"), DateStr("mdy", Now - 100)) }

SameCounts(a, b) ==
    /\ ActiveViolations(a) = ActiveViolations(b)
    /\ HealthViolations(a) = HealthViolations(b)

SearchInit ==
    /\ \E k \in 0..MaxSearchViolations :
          \E a \in [1..k -> SearchRows] :
             \E b \in [1..k -> SearchRows] :
                /\ SameCounts(a, b)
                /\ search_results = <<a, b>>
    /\ results_with_grades = <<>>
    /\ pc = "search"
    /\ system_data = EmptyDict
    /\ report_card = EmptyDict
    /\ AlertIdle
    /\ RerunIdle
    /\ ScreenIdle
    /\ SessionIdle

\* one row of results_with_grades: 'Grade' and 'Status' of grade_info
GradeLine(grade_info) ==
    [Grade |-> Fmt("{} {}", <<grade_info.emoji, grade_info.grade>>),
     Status |-> grade_info.status]

\* "for _, system in results.iterrows()": the table built so far, or the
\* exception that ends the loop
RECURSIVE GradeLoop(_, _, _, _)
GradeLoop(results, i, table, now) ==
    IF i > Len(results) THEN Returned(table)
    ELSE LET r == calculate_system_grade([violations |-> results[i]], now) IN
         IF r.exc # "none" THEN r
         ELSE GradeLoop(results, i + 1, Append(table, GradeLine(r.value)), now)

\* the search results are rendered with their grades
GradeSearchResults ==
    /\ pc = "search"
    /\ LET r == GradeLoop(search_results, 1, <<>>, clock) IN
       IF r.exc = "none"
       THEN /\ results_with_grades' = r.value
            /\ pc' = "listed"
       ELSE /\ results_with_grades' = <<>>
            /\ pc' = "raised"
    /\ UNCHANGED <<search_results, gradeVars, alertVars, rerunVars, screen, sessionVars>>

SearchNext == GradeSearchResults

SearchSpec == SearchInit /\ [][SearchNext]_vars

(***************************************************************************)
(* The report card of a system whose begin dates take every shape the      *)
(* column can hold: month/day/year dates on both sides of the two-year     *)
(* cut-off and later than Now, a date in year-month-day form, the          *)
(* sentinel, text that spells no date, NULL and a missing key.             *)
(***************************************************************************)
\* longest violation list of such a system
MaxDatedViolations == 2

DatedRows ==
    { Row(Str("Resolved"), Str("N"), DateStr("mdy", Now - (RECENT_DAYS + 1))),
      Row(Str("Resolved"), Str("N"), DateStr("mdy", Now - RECENT_DAYS)),
      Row(Str("Resolved"), Str("N"), DateStr("mdy", Now - (RECENT_DAYS - 1))),
      Row(Str("Resolved"), Str("N"), DateStr("mdy", Now)),
      Row(Str("Resolved"), Str("N"), DateStr("mdy", Now + 1)),
      Row(Str("Resolved"), Str("N"), DateStr("iso", Now - 1)),
      Row(Str("Unaddressed"), Str("Y"), Str(SENTINEL)),
      Row(Str("Resolved"), Str("Y"), Str("unknown")),
      Row(Str("Unaddressed"), Str("N"), None),
      [VIOLATION_STATUS |-> Str("Resolved"), IS_HEALTH_BASED_IND |-> Str("N")] }

DatedInit ==
    /\ system_data \in
          { [violations |-> vs] : vs \in BoundedSeq(DatedRows, MaxDatedViolations) }
    /\ report_card = EmptyDict
    /\ pc = "call"
    /\ SearchIdle
    /\ AlertIdle
    /\ RerunIdle
    /\ ScreenIdle
    /\ SessionIdle

DatedSpec == DatedInit /\ [][Next]_vars

(***************************************************************************)
(* The alert banner: WaterDatabase.get_active_alerts (utils/database.py).  *)
(* A table is the sequence of its rows, a row a dictionary of its columns, *)
(* NULL is None.  The date columns are TEXT: a date is kept by its year,   *)
(* month and day together with the form it is written in, "mdy" for the    *)
(* feed's MM/DD/YYYY and "iso" for YYYY-MM-DD, the form date('now') has.   *)
(***************************************************************************)
\* most rows of violations_enforcement
MaxAlertViolations == 3

\* most rows of pn_violation_assoc
MaxNotifications == 1

DateText(form, y, m, d) == [tag |-> "str", val |-> form, y |-> y, m |-> m, d |-> d]

\* date('now')
Today == DateText("iso", 2026, 11, 3)

\* the system the banner is asked for, and another one
SelectedPwsid == Str("GA0000001")

OtherPwsid == Str("GA0000002")

\* ref_code_values: one description per value type and code
RefCodeValues ==
    { [VALUE_TYPE |-> Str("VIOLATION_CODE"), VALUE_CODE |-> Str("01"),
       VALUE_DESCRIPTION |-> Str("MCL, Single Sample")],
      [VALUE_TYPE |-> Str("VIOLATION_CODE"), VALUE_CODE |-> Str("02"),
       VALUE_DESCRIPTION |-> Str("MCL, Average")],
      [VALUE_TYPE |-> Str("VIOLATION_CODE"), VALUE_CODE |-> Str("75"),
       VALUE_DESCRIPTION |-> Str("Public Notice Rule")],
      [VALUE_TYPE |-> Str("CONTAMINANT_CODE"), VALUE_CODE |-> Str("01"),
       VALUE_DESCRIPTION |-> Str("Other code table")] }

ViolationRow(pwsid, code, status, health, begin) ==
    [PWSID |-> pwsid, VIOLATION_CODE |-> code, VIOLATION_STATUS |-> status,
     IS_HEALTH_BASED_IND |-> health, NON_COMPL_PER_BEGIN_DATE |-> begin]

\* rows of violations_enforcement the tables of the model are made of
AlertViolationRows ==
    { ViolationRow(SelectedPwsid, Str("01"), Str("Unaddressed"), Str("Y"),
                   DateText("mdy", 2019, 12, 1)),
      ViolationRow(SelectedPwsid, Str("75"), Str("Unaddressed"), Str("Y"),
                   DateText("mdy", 2024, 1, 15)),
      ViolationRow(SelectedPwsid, Str("02"), Str("Unaddressed"), Str("N"),
                   DateText("mdy", 2022, 3, 10)),
      ViolationRow(SelectedPwsid, Str("11"), Str("Unaddressed"), None, None),
      ViolationRow(SelectedPwsid, Str("75"), Str("Unaddressed"), Str("N"),
                   DateText("mdy", 2025, 6, 1)),
      ViolationRow(SelectedPwsid, Str("01"), Str("Resolved"), Str("Y"),
                   DateText("mdy", 2025, 2, 1)),
      ViolationRow(OtherPwsid, Str("01"), Str("Unaddressed"), Str("Y"),
                   DateText("mdy", 2025, 3, 1)) }

NotificationRow(pwsid, code, begin, end) ==
    [PWSID |-> pwsid, VIOLATION_CODE |-> code,
     NON_COMPL_PER_BEGIN_DATE |-> begin, NON_COMPL_PER_END_DATE |-> end]

\* rows of pn_violation_assoc the tables of the model are made of
NotificationRows ==
    { NotificationRow(SelectedPwsid, Str("75"), DateText("mdy", 2020, 1, 1),
                      DateText("mdy", 2099, 12, 31)),
      NotificationRow(SelectedPwsid, Str("75"), DateText("iso", 2020, 1, 1),
                      DateText("iso", 2099, 12, 31)),
      NotificationRow(SelectedPwsid, Str("01"), DateText("iso", 2099, 1, 1),
                      DateText("iso", 2099, 12, 31)),
      NotificationRow(SelectedPwsid, Str("75"), DateText("iso", 2019, 1, 1),
                      DateText("iso", 2020, 1, 1)),
      NotificationRow(OtherPwsid, Str("75"), DateText("iso", 2020, 1, 1),
                      DateText("iso", 2099, 12, 31)) }

\* the columns the notification query names
QueriedPnColumns ==
    {"PWSID", "VIOLATION_CODE", "NON_COMPL_PER_BEGIN_DATE",
     "NON_COMPL_PER_END_DATE", "COMPL_PER_END_DATE"}

\* the columns of pn_violation_assoc: those the query names, or those of
\* the rows alone, without the COMPL_PER_END_DATE of the SELECT list
PnColumnSets == { QueriedPnColumns, QueriedPnColumns \ {"COMPL_PER_END_DATE"} }

(***************************************************************************)
(* SQLite's comparison of two values of a TEXT column: NULL sorts lowest,  *)
(* text is compared byte by byte.  The sentinel begins with '-', below     *)
(* every digit; MM/DD/YYYY begins with '0' or '1'; YYYY-MM-DD of this      *)
(* millennium begins with '2'.  SortKey(x) is ordered as the text of x is. *)
(***************************************************************************)
SortKey(x) ==
    IF x = None THEN <<0, 0, 0, 0>>
    ELSE IF "y" \notin DOMAIN x THEN <<1, 0, 0, 0>>
    ELSE IF x.val = "mdy" THEN <<2, x.m, x.d, x.y>>
    ELSE <<3, x.y, x.m, x.d>>

KeyLess(k, l) ==
    \E i \in 1..4 : k[i] < l[i] /\ \A j \in 1..(i - 1) : k[j] = l[j]

\* x >= y in a WHERE clause: true only when neither is NULL
SqlAtLeast(x, y) == x # None /\ y # None /\ ~KeyLess(SortKey(x), SortKey(y))

\* x = 'text' in a WHERE or ON clause
SqlEquals(x, y) == x # None /\ y # None /\ x = y

\* the orders ORDER BY ... DESC may return the rows of S in: every order in
\* which no row comes before one with a greater key
DescendingOrders(S, key) ==
    { f \in [1..Cardinality(S) -> S] :
        /\ \A i, j \in DOMAIN f : i # j => f[i] # f[j]
        /\ \A i, j \in DOMAIN f : i < j =>
              ~KeyLess(SortKey(f[i].row[key]), SortKey(f[j].row[key])) }

\* the violation codes alerted on without the health-based flag
AcuteRiskCodes_short ==
    { Str("01"), Str("03"), Str("04"), Str("11"), Str("12"),
      Str("21"), Str("22"), Str("23"), Str("24") }

AcuteRiskCodes ==
    { Str("01"), Str("02"), Str("03"), Str("04"), Str("11"), Str("12"),
      Str("21"), Str("22"), Str("23"), Str("24") }

\* the WHERE clause with the parentheses around the OR left out
CriticalWhere_unbracketed(v, pwsid) ==
    \/ /\ SqlEquals(v.PWSID, pwsid)
       /\ SqlEquals(v.VIOLATION_STATUS, Str("Unaddressed"))
       /\ SqlEquals(v.IS_HEALTH_BASED_IND, Str("Y"))
    \/ v.VIOLATION_CODE \in AcuteRiskCodes

\* the WHERE clause of the critical-violations query
CriticalWhere(v, pwsid) ==
    /\ SqlEquals(v.PWSID, pwsid)
    /\ SqlEquals(v.VIOLATION_STATUS, Str("Unaddressed"))
    /\ \/ SqlEquals(v.IS_HEALTH_BASED_IND, Str("Y"))
       \/ v.VIOLATION_CODE \in AcuteRiskCodes

\* LEFT JOIN ref_code_values: the rows joined to table row i, one for each
\* matching description, or one with NULL when none matches
JoinedRows(table, i) ==
    LET matches == { r \in RefCodeValues :
                       /\ SqlEquals(table[i].VIOLATION_CODE, r.VALUE_CODE)
                       /\ SqlEquals(r.VALUE_TYPE, Str("VIOLATION_CODE")) } IN
    IF matches = {}
    THEN { [id |-> i, row |-> table[i], desc |-> None] }
    ELSE { [id |-> i, row |-> table[i], desc |-> r.VALUE_DESCRIPTION] : r \in matches }

\* the rows of the critical-violations query, before ORDER BY
CriticalViolations(table, pwsid) ==
    UNION { JoinedRows(table, i) : i \in { j \in DOMAIN table : CriticalWhere(table[j], pwsid) } }

\* the WHERE clause of the notification query
NotificationWhere(n, pwsid, today) ==
    /\ SqlEquals(n.PWSID, pwsid)
    /\ SqlAtLeast(n.NON_COMPL_PER_END_DATE, today)

\* the rows of the notification query, before ORDER BY
PublicNotifications(table, pwsid, today) ==
    UNION { JoinedRows(table, i) : i \in { j \in DOMAIN table : NotificationWhere(table[j], pwsid, today) } }

\* critical_violations[critical_violations['IS_HEALTH_BASED_IND'] == 'Y'],
\* with the test left out
HealthRows_all(rows) == rows

\* critical_violations[critical_violations['IS_HEALTH_BASED_IND'] == 'Y']
HealthRows(rows) == SelectSeq(rows, LAMBDA r : r.row.IS_HEALTH_BASED_IND = Str("Y"))

AlertEntry(type, r, severity) ==
    [type |-> type, description |-> r.desc,
     date |-> r.row.NON_COMPL_PER_BEGIN_DATE, severity |-> severity]

EntriesOf(rows, type, severity) ==
    [i \in DOMAIN rows |-> AlertEntry(type, rows[i], severity)]

\* "alert_level = 'info'" without the test on alert_level
NoticeLevel_always(alert_level) == "info"

\* "if alert_level == 'none': alert_level = 'info'"
NoticeLevel(alert_level) == IF alert_level = "none" THEN "info" ELSE alert_level

\* the count taken on the 'type' key of the entries
CountSeverity_type(alerts, severity) ==
    Cardinality({ i \in DOMAIN alerts : alerts[i].type = severity })

\* len([a for a in alerts if a['severity'] == severity])
CountSeverity(alerts, severity) ==
    Cardinality({ i \in DOMAIN alerts : alerts[i].severity = severity })

\* get_active_alerts from the two query results on: the dictionary returned
BuildAlerts(critical_violations, public_notifications) ==
    LET health_violations == HealthRows(critical_violations)
        level1 == IF Len(critical_violations) = 0 THEN "none"
                  ELSE IF Len(health_violations) # 0 THEN "critical"
                  ELSE "warning"
        alerts1 == IF Len(critical_violations) = 0 THEN <<>>
                   ELSE IF Len(health_violations) # 0
                   THEN EntriesOf(health_violations, "Health Violation", "critical")
                   ELSE EntriesOf(critical_violations, "Violation", "warning")
        level2 == IF Len(public_notifications) # 0 THEN NoticeLevel(level1) ELSE level1
        alerts == alerts1 \o EntriesOf(public_notifications, "Public Notice", "info")
    IN [alert_level |-> level2,
        alerts |-> alerts,
        critical_count |-> CountSeverity(alerts, "critical"),
        warning_count |-> CountSeverity(alerts, "warning"),
        info_count |-> CountSeverity(alerts, "info")]

AlertInit ==
    /\ violations_enforcement \in BoundedSeq(AlertViolationRows, MaxAlertViolations)
    /\ pn_violation_assoc \in
          { [columns |-> c, rows |-> rs] :
               c \in PnColumnSets, rs \in BoundedSeq(NotificationRows, MaxNotifications) }
    /\ alerts_data = EmptyDict
    /\ pub_water_systems = <<>>
    /\ pc = "alerts"
    /\ system_data = EmptyDict
    /\ report_card = EmptyDict
    /\ SearchIdle
    /\ RerunIdle
    /\ ScreenIdle
    /\ SessionIdle

\* alerts_data = db.get_active_alerts(selected_pwsid)
GetActiveAlerts ==
    /\ pc = "alerts"
    /\ IF QueriedPnColumns \subseteq pn_violation_assoc.columns
       THEN \E vs \in DescendingOrders(CriticalViolations(violations_enforcement, SelectedPwsid), "NON_COMPL_PER_BEGIN_DATE") :
               \E ns \in DescendingOrders(PublicNotifications(pn_violation_assoc.rows, SelectedPwsid, Today), "NON_COMPL_PER_BEGIN_DATE") :
                  /\ alerts_data' = BuildAlerts(vs, ns)
                  /\ pc' = "alerted"
       ELSE /\ alerts_data' = EmptyDict
            /\ pc' = "raised"
    /\ UNCHANGED <<violations_enforcement, pn_violation_assoc, pub_water_systems, gradeVars, searchVars, rerunVars, screen, sessionVars>>

AlertNext == GetActiveAlerts

AlertSpec == AlertInit /\ [][AlertNext]_vars

(***************************************************************************)
(* The detail view run again: Streamlit executes the script anew on every  *)
(* interaction, so the report card of the same system is computed again,   *)
(* from the same rows of the read-only database, at a later reading of     *)
(* datetime.now().                                                         *)
(***************************************************************************)
\* most violations of the system viewed again
MaxRerunViolations == 2

\* most days between the first run of the script and a later one
MaxElapsedDays == 2

\* rows dated at and next to the edge of the 730 days, and rows without date
RerunRows ==
    { Row(Str("Resolved"), Str("N"), DateStr("mdy", Now - RECENT_DAYS)),
      Row(Str("Resolved"), Str("N"), DateStr("mdy", Now - (RECENT_DAYS - 1))),
      Row(Str("Resolved"), Str("Y"), DateStr("mdy", Now - 1)),
      Row(Str("Unaddressed"), Str("Y"), Str(SENTINEL)),
      Row(Str("Unaddressed"), Str("N"), None) }

RerunInit ==
    /\ system_data \in
          { [violations |-> vs] : vs \in BoundedSeq(RerunRows, MaxRerunViolations) }
    /\ report_card = EmptyDict
    /\ pc = "call"
    /\ SearchIdle
    /\ AlertIdle
    /\ RerunIdle
    /\ ScreenIdle
    /\ SessionIdle

\* the script is run again for the same system: the names of the run before
\* are gone, the rows fetched are the same, time may have passed
Rerun ==
    /\ pc \in {"returned", "raised"}
    /\ previous' = [clock |-> clock, input |-> system_data, pc |-> pc, card |-> report_card]
    /\ \E elapsed \in 0..1 :
          /\ clock + elapsed <= Now + MaxElapsedDays
          /\ clock' = clock + elapsed
    /\ report_card' = EmptyDict
    /\ pc' = "call"
    /\ UNCHANGED <<system_data, searchVars, alertVars, screen, sessionVars>>

RerunNext == CalculateSystemGrade \/ Rerun

RerunSpec == RerunInit /\ [][RerunNext]_vars

(***************************************************************************)
(* The detail view of the public user (app.py, tab2): the system selected  *)
(* in the search table is looked up, its alert banner and its report card  *)
(* are rendered.  The script is module-level code run in a fresh namespace,*)
(* so a name is unbound until the run assigns it.                          *)
(***************************************************************************)
\* most rows of violations_enforcement in the detail view
MaxDetailViolations == 2

\* a name of the script that no statement has assigned yet
Unbound == [tag |-> "unbound"]

\* a date of the feed with the day it names, counted as Now is
DetailDate(y, m, d, day) == [tag |-> "str", val |-> "mdy", y |-> y, m |-> m, d |-> d, day |-> day]

DetailViolationRows ==
    { ViolationRow(SelectedPwsid, Str("01"), Str("Unaddressed"), Str("Y"),
                   DetailDate(2019, 12, 1, Now - 2529)),
      ViolationRow(SelectedPwsid, Str("02"), Str("Unaddressed"), Str("N"),
                   DetailDate(2026, 11, 2, Now - 1)),
      ViolationRow(SelectedPwsid, Str("75"), Str("Resolved"), Str("N"),
                   DetailDate(2026, 11, 2, Now - 1)),
      ViolationRow(OtherPwsid, Str("01"), Str("Unaddressed"), Str("Y"),
                   DetailDate(2026, 11, 2, Now - 1)) }

\* the rows pub_water_systems may hold when the details are fetched
WaterSystemTables ==
    { <<>>,
      <<[PWSID |-> OtherPwsid]>>,
      <<[PWSID |-> SelectedPwsid]>>,
      <<[PWSID |-> OtherPwsid], [PWSID |-> SelectedPwsid]>> }

DetailInit ==
    /\ pub_water_systems \in WaterSystemTables
    /\ violations_enforcement \in BoundedSeq(DetailViolationRows, MaxDetailViolations)
    /\ pn_violation_assoc \in
          { [columns |-> c, rows |-> rs] :
               c \in PnColumnSets, rs \in BoundedSeq(NotificationRows, MaxNotifications) }
    /\ system_data = Unbound
    /\ alerts_data = Unbound
    /\ report_card = Unbound
    /\ pc = "selected"
    /\ SearchIdle
    /\ RerunIdle
    /\ ScreenIdle
    /\ SessionIdle

\* the rows of "SELECT v.*, ... WHERE v.PWSID = ?", before ORDER BY
SystemViolations(table, pwsid) ==
    UNION { JoinedRows(table, i) : i \in { j \in DOMAIN table : SqlEquals(table[j].PWSID, pwsid) } }

\* system_details = db.get_system_details(selected_pwsid)
GetSystemDetails ==
    /\ pc = "selected"
    /\ LET system_df == SelectSeq(pub_water_systems, LAMBDA r : SqlEquals(r.PWSID, SelectedPwsid)) IN
       IF Len(system_df) = 0
       THEN system_data' = EmptyDict
       ELSE \E vs \in DescendingOrders(SystemViolations(violations_enforcement, SelectedPwsid), "NON_COMPL_PER_BEGIN_DATE") :
               system_data' = [system |-> system_df[1],
                               violations |-> [i \in DOMAIN vs |-> vs[i].row],
                               site_visits |-> <<>>,
                               lead_copper |-> <<>>]
    /\ pc' = "details"
    /\ UNCHANGED <<report_card, searchVars, alertVars, rerunVars, screen, sessionVars>>

\* "if system_details: alerts_data = db.get_active_alerts(selected_pwsid)"
CheckAlerts ==
    /\ pc = "details"
    /\ IF system_data = EmptyDict
       THEN /\ pc' = "banner"
            /\ UNCHANGED <<alerts_data, screen>>
       ELSE IF QueriedPnColumns \subseteq pn_violation_assoc.columns
       THEN \E vs \in DescendingOrders(CriticalViolations(violations_enforcement, SelectedPwsid), "NON_COMPL_PER_BEGIN_DATE") :
               \E ns \in DescendingOrders(PublicNotifications(pn_violation_assoc.rows, SelectedPwsid, Today), "NON_COMPL_PER_BEGIN_DATE") :
                  /\ alerts_data' = BuildAlerts(vs, ns)
                  /\ pc' = "banner"
                  /\ UNCHANGED screen
       ELSE /\ pc' = "raised"
            /\ screen' = Append(screen, [element |-> "exception", body |-> "DatabaseError"])
            /\ UNCHANGED alerts_data
    /\ UNCHANGED <<violations_enforcement, pn_violation_assoc, pub_water_systems, gradeVars, searchVars, rerunVars, sessionVars>>

\* st.error, st.warning or st.info of the banner, by alert_level
BannerElement(level) ==
    CASE level = "critical" -> "error"
      [] level = "warning" -> "warning"
      [] OTHER -> "info"

\* "if alerts_data['alert_level'] != 'none': ..."
DisplayAlerts ==
    /\ pc = "banner"
    /\ IF alerts_data = Unbound
       THEN /\ pc' = "raised"
            /\ screen' = Append(screen, [element |-> "exception", body |-> "NameError"])
       ELSE /\ pc' = "graded"
            /\ screen' = IF alerts_data.alert_level # "none"
                         THEN Append(screen, [element |-> BannerElement(alerts_data.alert_level),
                                              body |-> alerts_data.alerts])
                         ELSE screen
    /\ UNCHANGED <<gradeVars, searchVars, alertVars, rerunVars, sessionVars>>

\* report_card = calculate_system_grade(system_details), and the grade card
ShowReportCard ==
    /\ pc = "graded"
    /\ LET r == calculate_system_grade(system_data, clock) IN
       IF r.exc = "none"
       THEN /\ report_card' = r.value
            /\ screen' = Append(screen, [element |-> "grade-card",
                                         body |-> <<r.value.grade, r.value.status, r.value.explanation>>])
            /\ pc' = "carded"
       ELSE /\ UNCHANGED report_card
            /\ screen' = Append(screen, [element |-> "exception", body |-> r.exc])
            /\ pc' = "raised"
    /\ UNCHANGED <<system_data, searchVars, alertVars, rerunVars, sessionVars>>

DetailNext == GetSystemDetails \/ CheckAlerts \/ DisplayAlerts \/ ShowReportCard

DetailSpec == DetailInit /\ [][DetailNext]_vars

(***************************************************************************)
(* The voice assistant: the Connect and Disconnect buttons of              *)
(* create_realtime_voice_interface run in the script thread, the callbacks *)
(* of every WebSocketApp in the thread connect() started for it.  voice    *)
(* holds st.session_state.voice_connected, the assistant's is_connected,   *)
(* the sockets created so far (self.ws is the last) and the value          *)
(* connect() returned.  A callback runs as one step.                       *)
(***************************************************************************)
\* most calls of connect()
MaxConnects == 3

VoiceInit ==
    /\ voice = [voice_connected |-> FALSE, is_connected |-> FALSE,
                sockets |-> <<>>, connected |-> None]
    /\ pc = "voice_idle"
    /\ meme = EmptyDict
    /\ system_data = EmptyDict
    /\ report_card = EmptyDict
    /\ SearchIdle
    /\ AlertIdle
    /\ RerunIdle
    /\ ScreenIdle

notVoice == <<gradeVars, searchVars, alertVars, rerunVars, screen, meme>>

\* the Connect button, enabled while voice_connected is false: connect()
\* creates the WebSocketApp and starts its thread
ClickConnect ==
    /\ pc = "voice_idle"
    /\ ~voice.voice_connected
    /\ Len(voice.sockets) < MaxConnects
    /\ voice' = [voice EXCEPT !.sockets = Append(@, "connecting"), !.connected = None]
    /\ pc' = "voice_waiting"
    /\ UNCHANGED notVoice

\* "if self.is_connected: return True" in the waiting loop of connect()
ConnectReturnsTrue ==
    /\ pc = "voice_waiting"
    /\ voice.is_connected
    /\ voice' = [voice EXCEPT !.connected = TRUE]
    /\ pc' = "voice_returned"
    /\ UNCHANGED notVoice

\* the fifty tests of the waiting loop found is_connected false: return False
ConnectReturnsFalse ==
    /\ pc = "voice_waiting"
    /\ ~voice.is_connected
    /\ voice' = [voice EXCEPT !.connected = FALSE]
    /\ pc' = "voice_returned"
    /\ UNCHANGED notVoice

\* st.session_state.voice_connected = connected
SetVoiceConnected ==
    /\ pc = "voice_returned"
    /\ voice' = [voice EXCEPT !.voice_connected = voice.connected]
    /\ pc' = "voice_idle"
    /\ UNCHANGED notVoice

\* the Disconnect button, enabled while voice_connected is true:
\* assistant.disconnect() closes self.ws and clears is_connected
ClickDisconnect ==
    /\ pc = "voice_idle"
    /\ voice.voice_connected
    /\ LET n == Len(voice.sockets) IN
       voice' = [voice EXCEPT !.is_connected = FALSE,
                              !.sockets = IF n > 0 /\ @[n] \in {"connecting", "open"}
                                          THEN [@ EXCEPT ![n] = "closing"]
                                          ELSE @]
    /\ pc' = "voice_disconnected"
    /\ UNCHANGED notVoice

\* st.session_state.voice_connected = False, after disconnect()
ClearVoiceConnected ==
    /\ pc = "voice_disconnected"
    /\ voice' = [voice EXCEPT !.voice_connected = FALSE]
    /\ pc' = "voice_idle"
    /\ UNCHANGED notVoice

\* on_open of socket s: the connection is established
OnOpen(s) ==
    /\ voice.sockets[s] = "connecting"
    /\ voice' = [voice EXCEPT !.is_connected = TRUE, !.sockets[s] = "open"]
    /\ UNCHANGED <<pc, notVoice>>

\* on_error of socket s: connecting failed or the open connection broke;
\* on_close follows
OnError(s) ==
    /\ voice.sockets[s] \in {"connecting", "open"}
    /\ voice' = [voice EXCEPT !.is_connected = FALSE, !.sockets[s] = "failed"]
    /\ UNCHANGED <<pc, notVoice>>

\* on_close of socket s: the server closed it, or close() or an error did
OnClose(s) ==
    /\ voice.sockets[s] \in {"open", "closing", "failed"}
    /\ voice' = [voice EXCEPT !.is_connected = FALSE, !.sockets[s] = "closed"]
    /\ UNCHANGED <<pc, notVoice>>

VoiceNext ==
    \/ ClickConnect
    \/ ConnectReturnsTrue
    \/ ConnectReturnsFalse
    \/ SetVoiceConnected
    \/ ClickDisconnect
    \/ ClearVoiceConnected
    \/ \E s \in DOMAIN voice.sockets : OnOpen(s)
    \/ \E s \in DOMAIN voice.sockets : OnError(s)
    \/ \E s \in DOMAIN voice.sockets : OnClose(s)

VoiceSpec == VoiceInit /\ [][VoiceNext]_vars

(***************************************************************************)
(* The meme wizard (app.py, tab8).  meme holds the keys of                 *)
(* st.session_state the tab uses, None standing for a key that is not      *)
(* set; a generated meme is kept by the template and caption it was made   *)
(* from.  A button press is one step: the handler and the rerun after it.  *)
(***************************************************************************)
\* the files of the template directory
Templates == {Str("drake.png"), Str("two_buttons.png")}

\* what the text area can hold when Continue is pressed, and what the
\* caption generator can suggest
Captions == {Str("lead | in the water"), Str("boil it"), Str("tastes funny")}

MemeInit ==
    /\ meme = [meme_step |-> 1, selected_template |-> None, caption_text |-> None,
               ai_captions |-> None, generated_meme |-> None]
    /\ pc = "meme"
    /\ voice = EmptyDict
    /\ system_data = EmptyDict
    /\ report_card = EmptyDict
    /\ SearchIdle
    /\ AlertIdle
    /\ RerunIdle
    /\ ScreenIdle

notMeme == <<pc, gradeVars, searchVars, alertVars, rerunVars, screen, voice>>

\* a button of the template grid or of the popular templates
SelectTemplate(template) ==
    /\ meme.meme_step = 1
    /\ meme' = [meme EXCEPT !.selected_template = template, !.meme_step = 2]
    /\ UNCHANGED notMeme

\* "Change Template"
ChangeTemplate ==
    /\ meme.meme_step = 2
    /\ meme' = [meme EXCEPT !.meme_step = 1]
    /\ UNCHANGED notMeme

\* "Generate AI Suggestions"
GenerateSuggestions(captions) ==
    /\ meme.meme_step = 2
    /\ meme' = [meme EXCEPT !.ai_captions = [tag |-> "list", items |-> captions]]
    /\ UNCHANGED notMeme

\* the button of one of the suggestions shown
UseSuggestion(caption) ==
    /\ meme.meme_step = 2
    /\ meme.ai_captions # None
    /\ caption \in meme.ai_captions.items
    /\ meme' = [meme EXCEPT !.caption_text = caption]
    /\ UNCHANGED notMeme

\* "Continue to Generate", shown when the text area is not empty
ContinueToGenerate(caption_text) ==
    /\ meme.meme_step = 2
    /\ caption_text # Str("")
    /\ meme' = [meme EXCEPT !.caption_text = caption_text, !.meme_step = 3]
    /\ UNCHANGED notMeme

\* "Generate Meme!": generate_meme returns the image or None
GenerateMeme(succeeds) ==
    /\ meme.meme_step = 3
    /\ meme' = IF succeeds
               THEN [meme EXCEPT !.generated_meme =
                        [tag |-> "bytes", template |-> meme.selected_template,
                         caption |-> meme.caption_text]]
               ELSE meme
    /\ UNCHANGED notMeme

\* "Edit Caption"
EditCaption ==
    /\ meme.meme_step = 3
    /\ meme' = [meme EXCEPT !.meme_step = 2]
    /\ UNCHANGED notMeme

\* "Create Another Meme", shown with a generated meme
CreateAnother ==
    /\ meme.meme_step = 3
    /\ meme.generated_meme # None
    /\ meme' = [meme EXCEPT !.meme_step = 1, !.generated_meme = None,
                            !.ai_captions = None, !.caption_text = None]
    /\ UNCHANGED notMeme

MemeNext ==
    \/ \E template \in Templates : SelectTemplate(template)
    \/ ChangeTemplate
    \/ \E captions \in (SUBSET Captions) \ {{}} : GenerateSuggestions(captions)
    \/ \E caption \in Captions : UseSuggestion(caption)
    \/ \E caption_text \in Captions \cup {Str("")} : ContinueToGenerate(caption_text)
    \/ \E succeeds \in BOOLEAN : GenerateMeme(succeeds)
    \/ EditCaption
    \/ CreateAnother

MemeSpec == MemeInit /\ [][MemeNext]_vars

TypeOK ==
    /\ pc \in {"call", "returned", "raised", "search", "listed", "alerts", "alerted",
              "selected", "details", "banner", "graded", "carded",
              "voice_idle", "voice_waiting", "voice_returned", "voice_disconnected",
              "meme"}
    /\ clock \in Now..(Now + MaxElapsedDays)
    /\ pc \in {"returned", "carded"} => report_card.grade \in {"A", "B", "C", "D", "F"}

(***************************************************************************)
(* The input of the call, read from system_data without the operators of   *)
(* the model: the counts the properties below are stated in.               *)
(***************************************************************************)
InputViolations ==
    IF "violations" \in DOMAIN system_data THEN system_data.violations ELSE <<>>

FieldIs(v, key, s) == key \in DOMAIN v /\ v[key] = [tag |-> "str", val |-> s]

Unaddressed(v) == FieldIs(v, "VIOLATION_STATUS", "Unaddressed")

HealthBased(v) == FieldIs(v, "IS_HEALTH_BASED_IND", "Y")

\* the begin date is a month/day/year date within the last 730 days
BeganRecently(v) ==
    /\ "NON_COMPL_PER_BEGIN_DATE" \in DOMAIN v
    /\ LET d == v["NON_COMPL_PER_BEGIN_DATE"] IN
       /\ d.tag = "str"
       /\ "day" \in DOMAIN d
       /\ d.val = "mdy"
       /\ d.day > Now - 730
       /\ d.day <= Now

HasSentinelDate(v) ==
    /\ "NON_COMPL_PER_BEGIN_DATE" \in DOMAIN v
    /\ v["NON_COMPL_PER_BEGIN_DATE"] = [tag |-> "str", val |-> "--->"]

HasMissingField(v) ==
    \E key \in {"VIOLATION_STATUS", "IS_HEALTH_BASED_IND", "NON_COMPL_PER_BEGIN_DATE"} :
        key \notin DOMAIN v \/ v[key] = [tag |-> "None"]

NumTotal == Len(InputViolations)

NumUnaddressed ==
    Cardinality({ i \in DOMAIN InputViolations : Unaddressed(InputViolations[i]) })

NumUnaddressedHealth ==
    Cardinality({ i \in DOMAIN InputViolations :
                    Unaddressed(InputViolations[i]) /\ HealthBased(InputViolations[i]) })

NumRecent ==
    Cardinality({ i \in DOMAIN InputViolations : BeganRecently(InputViolations[i]) })

\* resolution rate >= n, for a non-empty list
InputRateAtLeast(n) == (NumTotal - NumUnaddressed) * 100 >= n * NumTotal

Outcome(grade, score, status) ==
    /\ report_card.grade = grade
    /\ report_card.score = score
    /\ report_card.status = status

(***************************************************************************)
(* C1: for every violation list, the empty one and those with missing      *)
(* fields or unparseable dates included, calculate_system_grade raises     *)
(* nothing and returns a grade among A, B, C, D, F with an integer score   *)
(* between 0 and 100.                                                      *)
(***************************************************************************)
C1_GradeIsTotal ==
    /\ pc # "raised"
    /\ pc = "returned" =>
          /\ report_card.grade \in {"A", "B", "C", "D", "F"}
          /\ report_card.score \in 0..100

\* a call has returned for a list holding a sentinel date and a missing field
C1_Witness ==
    /\ pc = "returned"
    /\ \E i \in DOMAIN InputViolations : HasSentinelDate(InputViolations[i])
    /\ \E i \in DOMAIN InputViolations : HasMissingField(InputViolations[i])

(***************************************************************************)
(* C2: with at least 3 violations both Unaddressed and health-based the    *)
(* result is grade F, score 30, status Critical, whatever the other counts *)
(* are.                                                                    *)
(***************************************************************************)
C2_ThreeActiveHealthIsF ==
    (pc = "returned" /\ NumUnaddressedHealth >= 3) => Outcome("F", 30, "Critical")

\* exactly 3 such violations, next to another active and a recent closed one
C2_Witness ==
    /\ pc = "returned"
    /\ NumUnaddressedHealth = 3
    /\ NumUnaddressed > NumUnaddressedHealth
    /\ NumTotal > NumUnaddressed
    /\ report_card.grade = "F"

(***************************************************************************)
(* C3: with exactly 1 or 2 violations both Unaddressed and health-based    *)
(* the result is grade D, score 50, status Poor, whatever the number of    *)
(* other active, recent or historical violations is.                       *)
(***************************************************************************)
C3_OneOrTwoActiveHealthIsD ==
    (pc = "returned" /\ NumUnaddressedHealth \in {1, 2}) => Outcome("D", 50, "Poor")

\* 2 such violations next to 3 other active ones
C3_Witness ==
    /\ pc = "returned"
    /\ NumUnaddressedHealth = 2
    /\ NumUnaddressed = 5
    /\ report_card.score = 50

(***************************************************************************)
(* C4: with no Unaddressed health-based violation and at least 5           *)
(* Unaddressed violations the result is grade D, score 55, status Poor.    *)
(***************************************************************************)
C4_FiveActiveIsD ==
    (pc = "returned" /\ NumUnaddressedHealth = 0 /\ NumUnaddressed >= 5)
        => Outcome("D", 55, "Poor")

C4_Witness ==
    /\ pc = "returned"
    /\ NumUnaddressedHealth = 0
    /\ NumUnaddressed = 5
    /\ report_card.score = 55

(***************************************************************************)
(* C5: with no Unaddressed health-based violation and 1 to 4 Unaddressed   *)
(* violations the result is grade C, score 70, status Fair.                *)
(***************************************************************************)
C5_FewActiveIsC ==
    (pc = "returned" /\ NumUnaddressedHealth = 0 /\ NumUnaddressed \in 1..4)
        => Outcome("C", 70, "Fair")

\* 4 active violations, none health-based, next to a closed health-based one
C5_Witness ==
    /\ pc = "returned"
    /\ NumUnaddressedHealth = 0
    /\ NumUnaddressed = 4
    /\ \E i \in DOMAIN InputViolations : HealthBased(InputViolations[i])
    /\ report_card.grade = "C"

(***************************************************************************)
(* C6: for the empty violation list the result is grade A, score 100,      *)
(* status Excellent, explanation "No violations on record".                *)
(***************************************************************************)
C6_EmptyListIsA100 ==
    (pc = "returned" /\ NumTotal = 0) =>
        /\ Outcome("A", 100, "Excellent")
        /\ report_card.explanation = [text |-> "No violations on record", args |-> <<>>]

\* the call has returned for a dictionary whose violation list is empty
C6_Witness ==
    /\ pc = "returned"
    /\ "violations" \in DOMAIN system_data
    /\ system_data.violations = <<>>

(***************************************************************************)
(* C7: with no Unaddressed violation, at least one violation begun within  *)
(* the last 730 days and a resolution rate of at least 90 the result is    *)
(* grade B, score 85, status Good.                                         *)
(***************************************************************************)
C7_RecentResolvedIsB ==
    (pc = "returned" /\ NumUnaddressed = 0 /\ NumRecent >= 1 /\ InputRateAtLeast(90))
        => Outcome("B", 85, "Good")

C7_Witness ==
    /\ pc = "returned"
    /\ NumUnaddressed = 0
    /\ NumRecent >= 1
    /\ InputRateAtLeast(90)
    /\ report_card.score = 85

Branch(cond, grade, score) == [cond |-> cond, grade |-> grade, score |-> score]

DecisionListOn(total, active, active_health, recent) ==
    << Branch(active_health >= 3, "F", 30),
       Branch(active_health >= 1, "D", 50),
       Branch(active >= 5, "D", 55),
       Branch(active >= 1, "C", 70),
       Branch(recent >= 1 /\ (total - active) * 100 >= 90 * total, "B", 85),
       Branch(recent >= 1, "C", 75),
       Branch(total <= 3, "A", 95),
       Branch(TRUE, "B", 80) >>

DecisionList ==
    DecisionListOn(NumTotal, NumUnaddressed, NumUnaddressedHealth, NumRecent)

HoldingIn(list) == { i \in DOMAIN list : list[i].cond }

FirstHoldingIn(list) ==
    CHOOSE i \in HoldingIn(list) : \A j \in HoldingIn(list) : i <= j

FiredBy(branch) ==
    /\ report_card.grade = branch.grade
    /\ report_card.score = branch.score

GradeRank(grade) ==
    CASE grade = "A" -> 5 [] grade = "B" -> 4 [] grade = "C" -> 3
      [] grade = "D" -> 2 [] grade = "F" -> 1

ListedGrade(i) == results_with_grades[i].Grade.args[2]

UnaddressedHealthIn(list) ==
    Cardinality({ i \in DOMAIN list : Unaddressed(list[i]) /\ HealthBased(list[i]) })

UnaddressedIn(list) == Cardinality({ i \in DOMAIN list : Unaddressed(list[i]) })

HealthBasedIn(list) == Cardinality({ i \in DOMAIN list : HealthBased(list[i]) })

RecentIn(list) == Cardinality({ i \in DOMAIN list : BeganRecently(list[i]) })

\* the other counts of the two listed systems are the same
OtherCountsAgree ==
    LET a == search_results[1]
        b == search_results[2] IN
    /\ Len(a) = Len(b)
    /\ UnaddressedIn(a) = UnaddressedIn(b)
    /\ HealthBasedIn(a) = HealthBasedIn(b)
    /\ RecentIn(a) = RecentIn(b)

C11_MoreActiveHealthNeverBetter ==
    (/\ pc = "listed"
     /\ OtherCountsAgree
     /\ UnaddressedHealthIn(search_results[1]) < UnaddressedHealthIn(search_results[2]))
        => GradeRank(ListedGrade(2)) <= GradeRank(ListedGrade(1))

\* 2 against 3 active health-based violations among 3 active and 3
\* health-based ones: D against F
C11_Witness ==
    /\ pc = "listed"
    /\ OtherCountsAgree
    /\ UnaddressedHealthIn(search_results[1]) = 2
    /\ UnaddressedHealthIn(search_results[2]) = 3
    /\ ListedGrade(1) = "D"
    /\ ListedGrade(2) = "F"

(***************************************************************************)
(* C12: every result of calculate_system_grade, the one for the empty list *)
(* included, holds the metrics object with its six fields: total, active,  *)
(* health and active-health violations, resolution rate, recent count.     *)
(* The result of the early return for the empty list has no metrics.       *)
(***************************************************************************)
MetricsFields ==
    {"total_violations", "active_violations", "health_violations",
     "active_health", "resolution_rate", "recent_violations"}

C12_EveryResultHasMetrics ==
    pc = "returned" =>
        /\ "metrics" \in DOMAIN report_card
        /\ DOMAIN report_card.metrics = MetricsFields

(***************************************************************************)
(* C13: a violation whose begin date is the sentinel "--->", is missing or *)
(* None, or is any string not in month/day/year form, has a null date: the *)
(* call does not raise, the violation never adds to the recent count, and  *)
(* it is still counted in total, active, health and active_health.  A      *)
(* date in year-month-day form inside the window refutes it: pandas parses *)
(* it and the violation is counted as recent.                              *)
(***************************************************************************)
\* the begin date is text in month/day/year form
HasConformingDate(v) ==
    /\ "NON_COMPL_PER_BEGIN_DATE" \in DOMAIN v
    /\ LET d == v["NON_COMPL_PER_BEGIN_DATE"] IN
       d.tag = "str" /\ "day" \in DOMAIN d /\ d.val = "mdy"

NumConforming ==
    Cardinality({ i \in DOMAIN InputViolations : HasConformingDate(InputViolations[i]) })

NumHealthBased ==
    Cardinality({ i \in DOMAIN InputViolations : HealthBased(InputViolations[i]) })

C13_NonConformingDatesAreNull ==
    /\ pc # "raised"
    /\ (pc = "returned" /\ NumTotal > 0) =>
          /\ report_card.metrics.recent_violations <= NumConforming
          /\ report_card.metrics.total_violations = NumTotal
          /\ report_card.metrics.active_violations = NumUnaddressed
          /\ report_card.metrics.health_violations = NumHealthBased
          /\ report_card.metrics.active_health = NumUnaddressedHealth

(***************************************************************************)
(* C14: the recent count is the number of violations whose begin date      *)
(* parses and lies within the last 730 days: later than now minus 730 days *)
(* and not later than now.  A violation dated after now refutes it: the    *)
(* code tests only "date > now - 730 days" and counts it.                  *)
(***************************************************************************)
\* the begin date spells a date, in whatever form, within the last 730 days
ParsesWithinWindow(v) ==
    /\ "NON_COMPL_PER_BEGIN_DATE" \in DOMAIN v
    /\ LET d == v["NON_COMPL_PER_BEGIN_DATE"] IN
       /\ d.tag = "str"
       /\ "day" \in DOMAIN d
       /\ d.day > Now - 730
       /\ d.day <= Now

C14_RecentIsWithinLast730Days ==
    (pc = "returned" /\ NumTotal > 0) =>
        report_card.metrics.recent_violations =
            Cardinality({ i \in DOMAIN InputViolations :
                            ParsesWithinWindow(InputViolations[i]) })

(***************************************************************************)
(* The tables the banner was computed from, read without the operators of  *)
(* the model: the rows the properties of get_active_alerts are stated in.  *)
(***************************************************************************)
AlertsReturned == pc = "alerted"

AllowList == {"01", "02", "03", "04", "11", "12", "21", "22", "23", "24"}

AllowListed(v) == \E code \in AllowList : v.VIOLATION_CODE = [tag |-> "str", val |-> code]

FlaggedHealthBased(v) == v.IS_HEALTH_BASED_IND = [tag |-> "str", val |-> "Y"]

Qualifying(v) ==
    /\ v.PWSID = SelectedPwsid
    /\ v.VIOLATION_STATUS = [tag |-> "str", val |-> "Unaddressed"]
    /\ (FlaggedHealthBased(v) \/ AllowListed(v))

QualifyingRows ==
    { i \in DOMAIN violations_enforcement : Qualifying(violations_enforcement[i]) }

QualifyingHealthRows ==
    { i \in QualifyingRows : FlaggedHealthBased(violations_enforcement[i]) }

EntriesWhere(key, values) ==
    { i \in DOMAIN alerts_data.alerts : alerts_data.alerts[i][key] \in values }

ViolationEntries == EntriesWhere("type", {"Health Violation", "Violation"})

\* a date text read as the calendar day it names
IsCalendarDate(x) == x # None /\ "y" \in DOMAIN x

Chronological(x) == x.y * 10000 + x.m * 100 + x.d

\* the notifications of the system whose window [begin, end] holds today
ActiveNotices ==
    { i \in DOMAIN pn_violation_assoc.rows :
        LET n == pn_violation_assoc.rows[i] IN
        /\ n.PWSID = SelectedPwsid
        /\ IsCalendarDate(n.NON_COMPL_PER_BEGIN_DATE)
        /\ IsCalendarDate(n.NON_COMPL_PER_END_DATE)
        /\ Chronological(n.NON_COMPL_PER_BEGIN_DATE) <= Chronological(Today)
        /\ Chronological(Today) <= Chronological(n.NON_COMPL_PER_END_DATE) }

(***************************************************************************)
(* C15: every violation-derived entry ("Health Violation" or "Violation")  *)
(* belongs to a violation of the requested system that is Unaddressed and  *)
(* either health-based or of an allow-listed code, each such violation     *)
(* accounting for at most one entry; when no violation qualifies there is  *)
(* no such entry and the level is neither "critical" nor "warning".        *)
(***************************************************************************)
C15_OnlyQualifyingViolationsAlert ==
    AlertsReturned =>
        LET entries == ViolationEntries
            rows == QualifyingRows IN
        /\ \E f \in [entries -> rows] :
              /\ \A i, j \in entries : i # j => f[i] # f[j]
              /\ \A i \in entries :
                    /\ alerts_data.alerts[i].date =
                          violations_enforcement[f[i]].NON_COMPL_PER_BEGIN_DATE
                    /\ alerts_data.alerts[i].type = "Health Violation" =>
                          FlaggedHealthBased(violations_enforcement[f[i]])
        /\ rows = {} => alerts_data.alert_level \in {"none", "info"}

\* a returned banner with one entry, from a table that also holds a resolved
\* violation and an unaddressed one that is neither health-based nor listed
C15_Witness ==
    /\ AlertsReturned
    /\ Cardinality(ViolationEntries) = 1
    /\ Cardinality(QualifyingRows) = 1
    /\ \E i \in DOMAIN violations_enforcement :
          /\ violations_enforcement[i].PWSID = SelectedPwsid
          /\ violations_enforcement[i].VIOLATION_STATUS = Str("Resolved")
    /\ \E i \in DOMAIN violations_enforcement :
          /\ violations_enforcement[i].PWSID = SelectedPwsid
          /\ violations_enforcement[i].VIOLATION_STATUS = Str("Unaddressed")
          /\ i \notin QualifyingRows

(***************************************************************************)
(* C16: when a qualifying violation is health-based the level is           *)
(* "critical", the entries of type "Health Violation" are exactly the      *)
(* entries of severity "critical", there are as many of them as            *)
(* health-based qualifying violations, and no other violation entry.       *)
(***************************************************************************)
C16_HealthBasedIsCritical ==
    (AlertsReturned /\ QualifyingHealthRows # {}) =>
        /\ alerts_data.alert_level = "critical"
        /\ EntriesWhere("type", {"Health Violation"}) = EntriesWhere("severity", {"critical"})
        /\ Cardinality(EntriesWhere("type", {"Health Violation"})) = Cardinality(QualifyingHealthRows)
        /\ ViolationEntries = EntriesWhere("type", {"Health Violation"})

\* two health-based qualifying violations beside a qualifying one that is not
C16_Witness ==
    /\ AlertsReturned
    /\ Cardinality(QualifyingHealthRows) = 2
    /\ Cardinality(QualifyingRows) = 3
    /\ alerts_data.critical_count = 2

(***************************************************************************)
(* C17: when violations qualify and none of them is health-based the level *)
(* is "warning", the entries of type "Violation" are exactly the entries   *)
(* of severity "warning", there are as many of them as qualifying          *)
(* violations, and no other violation entry.                               *)
(***************************************************************************)
C17_OtherQualifyingIsWarning ==
    (AlertsReturned /\ QualifyingRows # {} /\ QualifyingHealthRows = {}) =>
        /\ alerts_data.alert_level = "warning"
        /\ EntriesWhere("type", {"Violation"}) = EntriesWhere("severity", {"warning"})
        /\ Cardinality(EntriesWhere("type", {"Violation"})) = Cardinality(QualifyingRows)
        /\ ViolationEntries = EntriesWhere("type", {"Violation"})

\* two allow-listed violations, none health-based, two warning entries
C17_Witness ==
    /\ AlertsReturned
    /\ QualifyingHealthRows = {}
    /\ Cardinality(QualifyingRows) = 2
    /\ alerts_data.warning_count = 2
    /\ alerts_data.alert_level = "warning"

(***************************************************************************)
(* C18: the entries of severity "info" are the entries of type "Public     *)
(* Notice", one for each active notification; with no qualifying violation *)
(* the level is "info" when a notification is active and "none" when none  *)
(* is; with qualifying violations it is "critical" or "warning" as the     *)
(* violations alone make it.                                               *)
(***************************************************************************)
C18_NoticesOnlyInform ==
    AlertsReturned =>
        /\ EntriesWhere("severity", {"info"}) = EntriesWhere("type", {"Public Notice"})
        /\ Cardinality(EntriesWhere("type", {"Public Notice"})) = Cardinality(ActiveNotices)
        /\ QualifyingRows = {} =>
              alerts_data.alert_level = IF ActiveNotices # {} THEN "info" ELSE "none"
        /\ QualifyingRows # {} =>
              alerts_data.alert_level = IF QualifyingHealthRows # {} THEN "critical" ELSE "warning"

(***************************************************************************)
(* C19: a notification of the system has a "Public Notice" entry exactly   *)
(* when today lies in its window, begin <= today <= end: the "Public       *)
(* Notice" entries carry the begin dates of the active notifications, one  *)
(* entry each, and a notification that is not active raises no level.      *)
(***************************************************************************)
C19_NoticeIffWindowHoldsToday ==
    AlertsReturned =>
        LET notices == EntriesWhere("type", {"Public Notice"}) IN
        /\ \E f \in [notices -> ActiveNotices] :
              /\ \A i, j \in notices : i # j => f[i] # f[j]
              /\ \A i \in ActiveNotices : \E e \in notices : f[e] = i
              /\ \A e \in notices :
                    alerts_data.alerts[e].date =
                       pn_violation_assoc.rows[f[e]].NON_COMPL_PER_BEGIN_DATE
        /\ (ActiveNotices = {} /\ QualifyingRows = {}) => alerts_data.alert_level = "none"

(***************************************************************************)
(* C20: in the returned list no entry comes before one of a higher         *)
(* severity (critical, then warning, then info), and of two entries of the *)
(* same severity that both carry a calendar date, none comes before one of *)
(* a later day.                                                            *)
(***************************************************************************)
SeverityRank(severity) ==
    CASE severity = "critical" -> 1
      [] severity = "warning" -> 2
      [] severity = "info" -> 3

C20_SortedBySeverityThenDate ==
    AlertsReturned =>
        \A i, j \in DOMAIN alerts_data.alerts : i < j =>
            LET a == alerts_data.alerts[i]
                b == alerts_data.alerts[j] IN
            /\ SeverityRank(a.severity) <= SeverityRank(b.severity)
            /\ (a.severity = b.severity /\ IsCalendarDate(a.date) /\ IsCalendarDate(b.date)) =>
                  Chronological(a.date) >= Chronological(b.date)

(***************************************************************************)
(* C21: every qualifying violation has an entry, also a qualifying         *)
(* violation that is not health-based beside one that is; the entries of   *)
(* type "Health Violation" come first, then those of type "Violation",     *)
(* then those of type "Public Notice".                                     *)
(***************************************************************************)
TypeRank(type) ==
    CASE type = "Health Violation" -> 1
      [] type = "Violation" -> 2
      [] type = "Public Notice" -> 3

C21_EveryQualifyingViolationListed ==
    AlertsReturned =>
        /\ Cardinality(EntriesWhere("type", {"Health Violation"})) = Cardinality(QualifyingHealthRows)
        /\ Cardinality(EntriesWhere("type", {"Violation"})) =
              Cardinality(QualifyingRows \ QualifyingHealthRows)
        /\ \A i, j \in DOMAIN alerts_data.alerts : i < j =>
              TypeRank(alerts_data.alerts[i].type) <= TypeRank(alerts_data.alerts[j].type)

(***************************************************************************)
(* C22: critical_count, warning_count and info_count are the numbers of    *)
(* entries of alerts with that severity, and add up to the length of       *)
(* alerts.                                                                 *)
(***************************************************************************)
C22_CountsMatchEntries ==
    AlertsReturned =>
        /\ alerts_data.critical_count = Cardinality(EntriesWhere("severity", {"critical"}))
        /\ alerts_data.warning_count = Cardinality(EntriesWhere("severity", {"warning"}))
        /\ alerts_data.info_count = Cardinality(EntriesWhere("severity", {"info"}))
        /\ alerts_data.critical_count + alerts_data.warning_count + alerts_data.info_count
              = Len(alerts_data.alerts)

\* a banner of two critical entries and a public notice
C22_Witness ==
    /\ AlertsReturned
    /\ Len(alerts_data.alerts) = 3
    /\ alerts_data.critical_count = 2
    /\ alerts_data.info_count = 1

(***************************************************************************)
(* C24: of any two results of calculate_system_grade the one with the      *)
(* strictly better grade (A > B > C > D > F) has the strictly higher       *)
(* score, and the status label is the one of the grade letter:             *)
(* A Excellent, B Good, C Fair, D Poor, F Critical.                        *)
(***************************************************************************)
\* the grade and score of every result of calculate_system_grade over the
\* inputs of the model
GradedOutcome(d) == LET r == calculate_system_grade(d, Now).value IN <<r.grade, r.score>>

AllOutcomes == { GradedOutcome(d) : d \in SystemDataValues }

StatusLabel(grade) ==
    CASE grade = "A" -> "Excellent"
      [] grade = "B" -> "Good"
      [] grade = "C" -> "Fair"
      [] grade = "D" -> "Poor"
      [] grade = "F" -> "Critical"

C24_BetterGradeHigherScore ==
    pc = "returned" =>
        /\ \A other \in AllOutcomes :
              GradeRank(report_card.grade) > GradeRank(other[1]) =>
                 report_card.score > other[2]
        /\ report_card.status = StatusLabel(report_card.grade)

\* a C result, against the best-scored D result and below every B result
C24_Witness ==
    /\ pc = "returned"
    /\ report_card.grade = "C"
    /\ <<"D", 55>> \in AllOutcomes
    /\ <<"B", 80>> \in AllOutcomes

(***************************************************************************)
(* C23: two calls of calculate_system_grade on the same violation list     *)
(* return equal results (grade, score, status, explanation, metrics), and  *)
(* the list and its records are after the call what they were before.      *)
(***************************************************************************)
CalledAgain == pc = "returned" /\ previous # EmptyDict

C23_SameListSameResult ==
    CalledAgain =>
        /\ system_data = previous.input
        /\ previous.pc = "returned"
        /\ report_card = previous.card

(***************************************************************************)
(* C23, amended: two calls of calculate_system_grade on the same violation *)
(* list return equal results when the same violations have a begin date    *)
(* later than 730 days before datetime.now() at both calls; the list and   *)
(* its records are after the call what they were before.                   *)
(***************************************************************************)
BeganAfter(v, day) ==
    /\ "NON_COMPL_PER_BEGIN_DATE" \in DOMAIN v
    /\ "day" \in DOMAIN v["NON_COMPL_PER_BEGIN_DATE"]
    /\ v["NON_COMPL_PER_BEGIN_DATE"].day > day

SameRecentViolations(now1, now2) ==
    \A i \in DOMAIN InputViolations :
        BeganAfter(InputViolations[i], now1 - 730) <=> BeganAfter(InputViolations[i], now2 - 730)

C23_SameListSameWindowSameResult ==
    CalledAgain =>
        /\ system_data = previous.input
        /\ previous.pc = "returned"
        /\ SameRecentViolations(previous.clock, clock) => report_card = previous.card

\* the second call a day after the first, on a list with a violation dated
\* 730 days before the first call and one dated the day before it
C23_Witness ==
    /\ CalledAgain
    /\ previous.clock < clock
    /\ SameRecentViolations(previous.clock, clock)
    /\ \E i \in DOMAIN InputViolations : BeganAfter(InputViolations[i], clock - 730)
    /\ \E i \in DOMAIN InputViolations :
          /\ ~BeganAfter(InputViolations[i], previous.clock - 730)
          /\ BeganAfter(InputViolations[i], previous.clock - 731)
    /\ report_card = previous.card

(***************************************************************************)
(* C25: when the selected system has no row in pub_water_systems, the      *)
(* detail view reports "not found" and evaluates neither the alert banner  *)
(* nor calculate_system_grade: once the view has ended a not-found message *)
(* is on the screen, no exception, no banner and no grade card are, and    *)
(* alerts_data and report_card were never assigned.                        *)
(***************************************************************************)
SelectedIsUnknown ==
    \A i \in DOMAIN pub_water_systems : pub_water_systems[i].PWSID # SelectedPwsid

DetailEnded == pc \in {"carded", "raised"}

Rendered(elements) == { i \in DOMAIN screen : screen[i].element \in elements }

C25_UnknownSystemIsNotFound ==
    (SelectedIsUnknown /\ DetailEnded) =>
        /\ Rendered({"not-found"}) # {}
        /\ Rendered({"exception", "grade-card", "error", "warning", "info"}) = {}
        /\ alerts_data = Unbound
        /\ report_card = Unbound

(***************************************************************************)
(* C26: for a non-empty list the metrics are: total the number of          *)
(* violations; active the number whose status is exactly "Unaddressed";    *)
(* health the number flagged health-based, whatever the status;            *)
(* active_health the number both Unaddressed and health-based;             *)
(* resolution_rate (total - active) / total * 100.  So active_health <=    *)
(* active <= total, active_health <= health <= total, 0 <= rate <= 100.    *)
(***************************************************************************)
C26_MetricsAreTheCounts ==
    (pc = "returned" /\ NumTotal > 0) =>
        LET m == report_card.metrics IN
        /\ m.total_violations = NumTotal
        /\ m.active_violations = NumUnaddressed
        /\ m.health_violations = NumHealthBased
        /\ m.active_health = NumUnaddressedHealth
        /\ m.resolution_rate.num * NumTotal =
              (NumTotal - NumUnaddressed) * 100 * m.resolution_rate.den
        /\ m.active_health <= m.active_violations
        /\ m.active_violations <= m.total_violations
        /\ m.active_health <= m.health_violations
        /\ m.health_violations <= m.total_violations
        /\ 0 <= m.resolution_rate.num
        /\ m.resolution_rate.num <= 100 * m.resolution_rate.den

\* a list with a violation that is neither Unaddressed nor Resolved, a
\* health-based one that is not Unaddressed and an Unaddressed one that is
\* not health-based
C26_Witness ==
    /\ pc = "returned"
    /\ \E i \in DOMAIN InputViolations :
          /\ ~Unaddressed(InputViolations[i])
          /\ ~FieldIs(InputViolations[i], "VIOLATION_STATUS", "Resolved")
    /\ NumHealthBased > NumUnaddressedHealth
    /\ NumUnaddressed > NumUnaddressedHealth
    /\ NumUnaddressed < NumTotal
    /\ report_card.metrics.active_violations = NumUnaddressed

(***************************************************************************)
(* C27: when no violation of a non-empty list is Unaddressed the           *)
(* resolution rate is exactly 100, no result is grade C with score 75, and *)
(* every grade C result has score 70.                                      *)
(***************************************************************************)
C27_FairAt75NeverFires ==
    pc = "returned" =>
        /\ (NumTotal > 0 /\ NumUnaddressed = 0) =>
              report_card.metrics.resolution_rate.num = 100 * report_card.metrics.resolution_rate.den
        /\ ~(report_card.grade = "C" /\ report_card.score = 75)
        /\ report_card.grade = "C" => report_card.score = 70

\* the test on the resolution rate is reached: nothing Unaddressed, a
\* violation of the last 730 days, and the result is B / 85
C27_Witness ==
    /\ pc = "returned"
    /\ NumTotal >= 2
    /\ NumUnaddressed = 0
    /\ NumRecent >= 1
    /\ report_card.metrics.recent_violations >= 1
    /\ report_card.grade = "B"
    /\ report_card.score = 85

(***************************************************************************)
(* C28: alert_level is the highest severity among the entries: "none"      *)
(* exactly when alerts is empty, "info" exactly when there are entries and *)
(* all are info, "warning" exactly when there is a warning entry and no    *)
(* critical one, "critical" exactly when there is a critical entry; no     *)
(* result holds both a critical and a warning entry.                       *)
(***************************************************************************)
C28_LevelIsHighestSeverity ==
    AlertsReturned =>
        LET critical == EntriesWhere("severity", {"critical"})
            warning == EntriesWhere("severity", {"warning"})
            info == EntriesWhere("severity", {"info"})
            level == alerts_data.alert_level IN
        /\ level \in {"none", "info", "warning", "critical"}
        /\ level = "none" <=> Len(alerts_data.alerts) = 0
        /\ level = "info" <=> (info # {} /\ warning = {} /\ critical = {})
        /\ level = "warning" <=> (warning # {} /\ critical = {})
        /\ level = "critical" <=> critical # {}
        /\ ~(critical # {} /\ warning # {})

\* a critical banner that also lists a public notice
C28_Witness ==
    /\ AlertsReturned
    /\ alerts_data.alert_level = "critical"
    /\ EntriesWhere("severity", {"info"}) # {}
    /\ EntriesWhere("severity", {"critical"}) # {}

(***************************************************************************)
(* C29: whenever no button action is in progress, after any interleaving   *)
(* of Connect and Disconnect with the callbacks on_open, on_error and      *)
(* on_close, st.session_state.voice_connected equals the assistant's       *)
(* is_connected: the flag is not true while the assistant is disconnected, *)
(* and the assistant is not connected while the flag is false.             *)
(***************************************************************************)
C29_VoiceFlagsAgree ==
    pc = "voice_idle" => voice.voice_connected = voice.is_connected

(***************************************************************************)
(* C30: after any sequence of button presses of the meme wizard meme_step  *)
(* is 1, 2 or 3; from step 2 on a template is selected; in step 3          *)
(* caption_text is not empty; and a generated meme shown in step 3 was     *)
(* generated from the selected template and the current caption_text.      *)
(***************************************************************************)
C30_MemeWizardIsConsistent ==
    pc = "meme" =>
        /\ meme.meme_step \in {1, 2, 3}
        /\ meme.meme_step >= 2 => meme.selected_template \in Templates
        /\ meme.meme_step = 3 => (meme.caption_text # None /\ meme.caption_text # Str(""))
        /\ (meme.meme_step = 3 /\ meme.generated_meme # None) =>
              /\ meme.generated_meme.template = meme.selected_template
              /\ meme.generated_meme.caption = meme.caption_text

====
